---- MODULE Spec2Model ----
(***************************************************************************)
(* The hardware-isolation record manager (hw_isolation::record::Manager)   *)
(* of src/src/hw_isolation_record/manager.cpp as a state machine.          *)
(*                                                                         *)
(* The guard store (libguard), the hardware catalog (IsolatableHWs), the   *)
(* error-log service and the policy sources are collaborators: their       *)
(* answers are inputs of the handlers, drawn with \E at the point where    *)
(* the code asks for them. Every handler is one action.                    *)
(***************************************************************************)
EXTENDS Integers, Sequences, FiniteSets, TLC

\* ---------------------------------------------------------------- bounds
\* Number of distinct physical hardware paths.
NumPaths == 2
\* Largest record id the guard store hands out.
MaxRecordId == 2
\* Capacity of the guard store, in records.
MaxRecords == 2
\* Cap on the number of timers waiting in _timerObjs.
MaxTimers == 2
\* Number of records, and largest record id, of the guard file where only the
\* host firmware writes it.
MaxHostRecords == 3
MaxSignals == 3

\* ------------------------------------------------------ program constants
\* The record id of a resolved record, 0xFFFFFFFF: all 32 bits set, written
\* as the 32-bit integer of that bit pattern (the checker's integers are
\* 32-bit signed). No record id in use equals it.
ResolvedRecordId == -1
\* The delay of the timer armed on a file change, in seconds.
TimerDelaySeconds == 5

\* ------------------------------------------------------------------ data
RecordIds == 1..MaxRecordId
\* devtree::DevTreePhysPath: the raw bytes of a physical path.
RawPaths == {<<n>> : n \in 1..NumPaths}
\* The paths of processor cores: the hardware the catalog can classify as an
\* eco core. The other paths are not cores.
CorePaths == {<<1>>}
\* openpower_guard::EntityPath built from raw bytes and their size.
EntityPath(data, size) == [type_size |-> size, pathElements |-> data]
EntityPaths == {EntityPath(raw, Len(raw)) : raw \in RawPaths}
convertEntityPathIntoRawData(ep) == ep.pathElements

\* Error types of guard records; getAll(true) leaves the ephemeral ones out.
EphemeralTypes == {"GARD_Reconfig", "GARD_Sticky_deconfig"}
GardTypes == {"GARD_User_Manual", "GARD_Fatal"}
\* Error-log ids (PEL ids) a record can carry; 0 is "no error log".
ElogIds == {0, 1}
\* Entry severities a caller can pass; "Unknown" has no guard type.
EntrySeverities == {"Manual", "Critical", "Unknown"}

\* A resolved record keeps its hardware path. The manager never reads the
\* error type or the error-log id of a resolved record: they are written as
\* one fixed value.
ResolvedRecord(targetId) ==
    [recordId |-> ResolvedRecordId, targetId |-> targetId,
     errType |-> "GARD_Fatal", elogId |-> 0]

\* The records a store can hold.
GuardRecords ==
    [recordId : RecordIds, targetId : EntityPaths,
     errType : GardTypes \cup EphemeralTypes, elogId : ElogIds]
    \cup {ResolvedRecord(ep) : ep \in EntityPaths}

\* The records the host firmware writes: a manual guard without an error
\* log, a fatal guard with one, an ephemeral record.
HostRecords ==
    {r \in GuardRecords :
        \/ r.errType = "GARD_User_Manual" /\ r.elogId = 0
        \/ r.errType = "GARD_Fatal" /\ r.elogId = 1
        \/ r.errType = "GARD_Reconfig" /\ r.elogId = 0}

\* optional<T>: <<>> is nullopt, <<v>> holds v.
Nullopt == <<>>
Some(v) == <<v>>
HasValue(o) == o # <<>>
ValueOf(o) == o[1]

\* entry::utils::getGuardType
getGuardType(severity) ==
    CASE severity = "Manual" -> Some("GARD_User_Manual")
      [] severity = "Critical" -> Some("GARD_Fatal")
      [] OTHER -> Nullopt

\* entry::utils::getEntrySeverityType
getEntrySeverityType(errType) ==
    CASE errType = "GARD_User_Manual" -> Some("Manual")
      [] errType = "GARD_Fatal" -> Some("Critical")
      [] OTHER -> Nullopt

\* The inventory object path the catalog keeps for a physical path.
InventoryPath(raw) == [inventory |-> raw[1]]
InventoryPaths == {InventoryPath(raw) : raw \in RawPaths}
\* An inventory path the catalog does not know.
UnknownInventoryPath == [inventory |-> 0]

\* IsolatableHWs::getPhysicalPath
getPhysicalPath(isolateHardware) ==
    IF isolateHardware \in InventoryPaths
    THEN Some(<<isolateHardware.inventory>>)
    ELSE Nullopt

\* The BMC error-log object path of an error-log id; the empty path for 0.
BMCLogPath(eid) == IF eid = 0 THEN "" ELSE "/xyz/openbmc_project/logging/entry/1"
\* An object path whose last component is not a number.
NonNumericLogPath == "/xyz/openbmc_project/logging/entry/latest"
\* The error-log object paths a caller can pass to createWithErrorLog.
BmcErrorLogs == {BMCLogPath(eid) : eid \in ElogIds \ {0}} \cup {NonNumericLogPath}

\* sdbusplus::message::object_path::filename: the last component of the
\* path, as its characters.
filename(path) ==
    CASE path = "/xyz/openbmc_project/logging/entry/1" -> <<"1">>
      [] path = NonNumericLogPath -> <<"l", "a", "t", "e", "s", "t">>
      [] OTHER -> <<>>

\* The decimal digits and their values.
DigitValue ==
    [c \in {"0", "1", "2", "3", "4", "5", "6", "7", "8", "9"} |->
        CASE c = "0" -> 0 [] c = "1" -> 1 [] c = "2" -> 2 [] c = "3" -> 3
          [] c = "4" -> 4 [] c = "5" -> 5 [] c = "6" -> 6 [] c = "7" -> 7
          [] c = "8" -> 8 [] c = "9" -> 9]

\* std::stoi: the number of the leading digits; nullopt where the string
\* starts with no digit and std::stoi throws std::invalid_argument.
RECURSIVE stoiFrom(_, _)
stoiFrom(chars, acc) ==
    IF chars = <<>> \/ Head(chars) \notin DOMAIN DigitValue THEN acc
    ELSE stoiFrom(Tail(chars), 10 * acc + DigitValue[Head(chars)])

stoi(chars) ==
    IF chars = <<>> \/ Head(chars) \notin DOMAIN DigitValue THEN Nullopt
    ELSE Some(stoiFrom(chars, 0))
\* The numeric id GetPELIdFromBMCLogId answers for a log path.
EIDOf(bmcErrorLog) == CHOOSE eid \in ElogIds \ {0} : BMCLogPath(eid) = bmcErrorLog

\* The decimal digits of 0xFFFFFFFF, the id ResolvedRecordId stands for.
ResolvedRecordIdDigits == <<"4", "2", "9", "4", "9", "6", "7", "2", "9", "5">>

\* std::stoul, as std::stoi for a string with no sign; the digits of
\* 0xFFFFFFFF read as ResolvedRecordId.
stoul(chars) ==
    IF chars = ResolvedRecordIdDigits THEN Some(ResolvedRecordId)
    ELSE stoi(chars)

\* The digit of a value below ten.
DigitOf(d) == CHOOSE c \in DOMAIN DigitValue : DigitValue[c] = d

\* std::to_string of a number that is not negative: its decimal digits.
RECURSIVE to_string(_)
to_string(n) ==
    IF n < 10 THEN <<DigitOf(n)>>
    ELSE Append(to_string(n \div 10), DigitOf(n % 10))

\* HW_ISOLATION_ENTRY_OBJPATH / std::to_string(recordId)
EntryObjPath(recordId) == [root |-> "HW_ISOLATION_ENTRY_OBJPATH", leaf |-> recordId]

\* ----------------------------------------------------------- guard store
\* isValidRecord without the comparison: every record id passes.
isValidRecordAlways(recordId) == TRUE

\* isValidRecord: a record is valid unless its id is 0xFFFFFFFF.
isValidRecord(recordId) == recordId # ResolvedRecordId

\* openpower_guard::getAll(excludeEphemeral): the records in file order.
getAll(g, excludeEphemeral) ==
    SelectSeq(g, LAMBDA r : ~(excludeEphemeral /\ r.errType \in EphemeralTypes))

\* openpower_guard::clear(recordId): the record is marked resolved in place.
GuardClear(g, recordId) ==
    [i \in DOMAIN g |->
        IF g[i].recordId = recordId
        THEN ResolvedRecord(g[i].targetId)
        ELSE g[i]]

ValidIds(g) == {g[i].recordId : i \in {j \in DOMAIN g : isValidRecord(g[j].recordId)}}
MinOf(S) == CHOOSE x \in S : \A y \in S : x <= y

\* The store with `rec` written: appended while there is room, else over the
\* oldest resolved record; <<>> when the store is full of valid records.
GuardPut(g, rec) ==
    LET resolvedAt == {i \in DOMAIN g : ~isValidRecord(g[i].recordId)}
    IN  IF Len(g) < MaxRecords THEN Some(Append(g, rec))
        ELSE IF resolvedAt # {} THEN Some([g EXCEPT ![MinOf(resolvedAt)] = rec])
        ELSE Nullopt

\* openpower_guard::create(entityPath, eId, type): what the store can answer,
\* as a set of [guard, record]. A valid record of the same hardware is
\* overridden in place and keeps its id; otherwise a new record gets an id no
\* valid record uses. The empty set: create throws.
GuardCreate(g, entityPath, eId, type) ==
    LET same == {i \in DOMAIN g :
                    g[i].targetId = entityPath /\ isValidRecord(g[i].recordId)}
    IN  IF same # {}
        THEN LET i == MinOf(same)
                 rec == [g[i] EXCEPT !.errType = type, !.elogId = eId]
             IN  {[guard |-> [g EXCEPT ![i] = rec], record |-> rec]}
        ELSE {[guard |-> ValueOf(GuardPut(g, rec)), record |-> rec] :
                rec \in {r \in [recordId : RecordIds \ ValidIds(g),
                                targetId : {entityPath}, errType : {type},
                                elogId : {eId}] : HasValue(GuardPut(g, r))}}

\* --------------------------------------------------------- manager state
\* A handler works on the record m:
\*   ih       _isolatedHardwares, record id -> Entry
\*   eco      _persistedEcoCores, a set of raw physical paths
\*   ecoFile  the persisted eco_cores file: nullopt when absent
\*   guard    the guard store
\*   stamped  the ids of the entries whose timestamp the handler wrote
\*   tried    the ids of the entries the handler called resolveEntry on, in
\*            the order of the calls
\*   raised   an exception is propagating out of the handler
SortedKeys(ih) ==
    LET RECURSIVE Asc(_)
        Asc(S) == IF S = {} THEN <<>> ELSE <<MinOf(S)>> \o Asc(S \ {MinOf(S)})
    IN  Asc(DOMAIN ih)

\* The archive written of _persistedEcoCores: the members one after the
\* other in the order of the std::set (the paths here are one byte long).
RECURSIVE save(_)
save(eco) ==
    IF eco = {} THEN <<>>
    ELSE LET first == CHOOSE c \in eco : \A d \in eco : c[1] <= d[1]
         IN  <<first>> \o save(eco \ {first})

\* The set read back from an archive.
load(archive) == {archive[i] : i \in DOMAIN archive}

\* Manager::serialize: the eco_cores file is removed for an empty set.
serialize(m) ==
    [m EXCEPT !.ecoFile = IF m.eco = {} THEN Nullopt ELSE Some(save(m.eco))]

\* Manager::deserialize: the set of the eco_cores file, if there is one.
deserialize(file) == IF HasValue(file) THEN load(ValueOf(file)) ELSE {}

\* updateEcoCoresList without the serialize() that ends it.
updateEcoCoresListUnsaved(m, ecoCore, coreDevTreePhysPath) ==
    [m EXCEPT !.eco = IF ecoCore
                      THEN m.eco \cup {coreDevTreePhysPath}
                      ELSE m.eco \ {coreDevTreePhysPath}]

\* Manager::updateEcoCoresList
updateEcoCoresList(m, ecoCore, coreDevTreePhysPath) ==
    serialize([m EXCEPT !.eco = IF ecoCore
                                 THEN m.eco \cup {coreDevTreePhysPath}
                                 ELSE m.eco \ {coreDevTreePhysPath}])

\* The association list built in createEntry, updateEntry and
\* updateEntryForRecord: the hardware, then the error log if there is one.
AssociationDef(isolatedHardware, bmcErrorLog) ==
    <<<<"isolated_hw", "isolated_hw_entry", isolatedHardware>>>> \o
    (IF bmcErrorLog # ""
     THEN <<<<"isolated_hw_errorlog", "isolated_hw_entry", bmcErrorLog>>>>
     ELSE <<>>)

\* entry::Entry as constructed in createEntry.
NewEntry(recordId, severity, resolved, associations, entityPath) ==
    [recordId |-> recordId, severity |-> severity, resolved |-> resolved,
     associations |-> associations, entityPath |-> entityPath]

\* The map with an entry inserted: std::map::insert keeps an existing key.
MapInsert(ih, recordId, entry) ==
    IF recordId \in DOMAIN ih THEN ih
    ELSE [k \in DOMAIN ih \cup {recordId} |->
            IF k = recordId THEN entry ELSE ih[k]]

MapErase(ih, recordId) == [k \in DOMAIN ih \ {recordId} |-> ih[k]]

\* The empty map: _isolatedHardwares after construction and after clear().
EmptyMap == [k \in {} |-> k]

\* The file an entry persists itself to, by its name in the directory of
\* HW_ISOLATION_ENTRY_PERSIST_PATH: the record id of the entry.
EntryFile(recordId) ==
    IF recordId = ResolvedRecordId THEN ResolvedRecordIdDigits
    ELSE to_string(recordId)

\* entry::Entry::serialize: the entry writes its file.
Persisted(m, recordId) ==
    [m EXCEPT !.files = m.files \cup {EntryFile(recordId)}]

\* The entries under `keys` are destroyed: their files are deleted.
Destroyed(m, keys) ==
    [m EXCEPT !.files = m.files \ {EntryFile(k) : k \in keys \cap DOMAIN m.ih}]

\* createEntry without the rollback: the record stays when the entry fails.
createEntryKeepingRecord(m, recordId, resolved, severity, isolatedHardware, bmcErrorLog, deleteRecord, entityPath, fault) ==
    LET entry == NewEntry(recordId, severity, resolved,
                          AssociationDef(isolatedHardware, bmcErrorLog),
                          entityPath)
        inserted == Persisted([m EXCEPT !.ih = MapInsert(m.ih, recordId, entry),
                                        !.stamped = m.stamped \cup {recordId}],
                              recordId)
    IN  IF fault = "ctor" \/ recordId \in DOMAIN m.ih
        THEN [m |-> m, path |-> Nullopt]
        ELSE IF fault = "enable" THEN [m |-> inserted, path |-> Nullopt]
        ELSE [m |-> inserted, path |-> Some(EntryObjPath(recordId))]

\* Manager::createEntry. fault is what throws inside the try block: "ctor"
\* (the Entry constructor), "enable" (utils::setEnabledProperty, after the
\* insert) or "none". The Entry constructor also throws when an object is
\* already exported at entryObjPath, i.e. the map holds recordId.
createEntry(m, recordId, resolved, severity, isolatedHardware, bmcErrorLog, deleteRecord, entityPath, fault) ==
    LET entry == NewEntry(recordId, severity, resolved,
                          AssociationDef(isolatedHardware, bmcErrorLog),
                          entityPath)
        caught(mm) == [m |-> IF deleteRecord
                             THEN [mm EXCEPT !.guard = GuardClear(mm.guard, recordId)]
                             ELSE mm,
                       path |-> Nullopt]
        inserted == Persisted([m EXCEPT !.ih = MapInsert(m.ih, recordId, entry),
                                        !.stamped = m.stamped \cup {recordId}],
                              recordId)
    IN  IF fault = "ctor" \/ recordId \in DOMAIN m.ih THEN caught(m)
        ELSE IF fault = "enable" THEN caught(inserted)
        ELSE [m |-> inserted, path |-> Some(EntryObjPath(recordId))]

\* updateEntry matching the entity path alone, whatever the record id.
updateEntryByPath(m, recordId, severity, isolatedHwDbusObjPath, bmcErrorLog, entityPath) ==
    LET hits == {k \in DOMAIN m.ih : m.ih[k].entityPath = entityPath}
    IN  IF hits = {} THEN [m |-> m, found |-> FALSE, path |-> Nullopt]
        ELSE LET k == MinOf(hits)
                 assoc == AssociationDef(isolatedHwDbusObjPath, bmcErrorLog)
             IN  [m |-> [m EXCEPT !.ih[k].severity = severity,
                                  !.ih[k].associations = assoc],
                  found |-> TRUE, path |-> Some(EntryObjPath(k))]

\* Manager::updateEntry: the first entry, in key order, of this entity path
\* and record id is updated in place.
updateEntry(m, recordId, severity, isolatedHwDbusObjPath, bmcErrorLog, entityPath) ==
    LET hits == {k \in DOMAIN m.ih : m.ih[k].entityPath = entityPath
                                      /\ m.ih[k].recordId = recordId}
    IN  IF hits = {} THEN [m |-> m, found |-> FALSE, path |-> Nullopt]
        ELSE LET k == MinOf(hits)
                 assoc == AssociationDef(isolatedHwDbusObjPath, bmcErrorLog)
                 updated == m.ih[k].severity # severity
                            \/ m.ih[k].associations # assoc
             IN  [m |-> Persisted(
                            [m EXCEPT !.ih[k].severity = severity,
                                      !.ih[k].associations = assoc,
                                      !.stamped = IF updated
                                                  THEN m.stamped \cup {k}
                                                  ELSE m.stamped],
                            m.ih[k].recordId),
                  found |-> TRUE, path |-> Some(EntryObjPath(k))]

\* The gate with the power state checked for every severity.
isHwIsolationAllowedAnySeverity(severity, settingEnabled, powerState) ==
    IF ~settingEnabled THEN "Unavailable"
    ELSE IF powerState # "Off" THEN "NotAllowed"
    ELSE "ok"

\* Manager::isHwIsolationAllowed: "ok", or the error it throws.
isHwIsolationAllowed(severity, settingEnabled, powerState) ==
    IF ~settingEnabled THEN "Unavailable"
    ELSE IF severity = "Manual" /\ powerState # "Off" THEN "NotAllowed"
    ELSE "ok"

\* eraseEntry leaving the eco cores as they are.
eraseEntryKeepingEcoCore(m, entryRecordId) ==
    [Destroyed(m, {entryRecordId}) EXCEPT !.ih = MapErase(m.ih, entryRecordId)]

\* Manager::eraseEntry
eraseEntry(m, entryRecordId) ==
    LET m1 == IF entryRecordId \in DOMAIN m.ih
              THEN updateEcoCoresList(m, FALSE,
                       convertEntityPathIntoRawData(m.ih[entryRecordId].entityPath))
              ELSE m
    IN  [Destroyed(m1, {entryRecordId}) EXCEPT
            !.ih = MapErase(m1.ih, entryRecordId)]

\* entry::Entry::resolveEntry(clearRecord): an entry not yet resolved has its
\* record cleared on request, is marked resolved and erases itself from the
\* manager; a resolved entry is left alone. fails: it throws before anything
\* changed.
resolveEntry(m, recordId, clearRecord, fails) ==
    LET called == [m EXCEPT !.tried = Append(m.tried, recordId)]
    IN  IF fails THEN [called EXCEPT !.raised = TRUE]
        ELSE IF m.ih[recordId].resolved THEN called
        ELSE eraseEntry([called EXCEPT !.guard = IF clearRecord
                                                 THEN GuardClear(m.guard, recordId)
                                                 ELSE m.guard], recordId)

\* The loop of resolveAllEntries without the try block: what resolveEntry
\* throws ends it.
RECURSIVE resolveEachUncaught(_, _, _, _)
resolveEachUncaught(m, keys, clearRecord, resolveFail) ==
    IF keys = <<>> THEN m
    ELSE LET k == Head(keys)
             m1 == resolveEntry(m, k, clearRecord, k \in resolveFail)
         IN  IF m1.raised THEN m1
             ELSE resolveEachUncaught(m1, Tail(keys), clearRecord, resolveFail)

\* Manager::resolveAllEntries: every entry of the map, in key order, the
\* iterator advanced before the entry resolves (and erases) itself; what
\* resolveEntry throws is caught and logged.
RECURSIVE resolveEach(_, _, _, _)
resolveEach(m, keys, clearRecord, resolveFail) ==
    IF keys = <<>> THEN m
    ELSE LET k == Head(keys)
             m1 == resolveEntry(m, k, clearRecord, k \in resolveFail)
         IN  resolveEach([m1 EXCEPT !.raised = FALSE], Tail(keys), clearRecord,
                         resolveFail)

resolveAllEntries(m, clearRecord, resolveFail) ==
    resolveEach(m, SortedKeys(m.ih), clearRecord, resolveFail)

\* ----------------------------------------------- collaborators' answers
\* What the collaborators answer during one handler, env:
\*   invFail      raw paths the catalog finds no inventory path for
\*   ecoCls       raw paths the catalog classifies as eco cores
\*   logFail      error-log ids the logging service finds no log path for
\*   resolveFail  ids of the entries whose resolveEntry throws
\*   ctorFail     record ids whose Entry constructor throws
\*   enableFail   record ids for whose hardware setEnabledProperty throws

\* IsolatableHWs::getInventoryPath(physicalPath, ecoCore&): the inventory
\* path, and ecoCore as the call leaves it.
getInventoryPath(raw, ecoCore, env) ==
    IF raw \in env.invFail
    THEN [path |-> Nullopt, ecoCore |-> ecoCore]
    ELSE [path |-> Some(InventoryPath(raw)),
          ecoCore |-> ecoCore \/ (raw \in CorePaths /\ raw \in env.ecoCls)]

\* utils::getBMCLogPath(elogId): the empty path for id 0.
getBMCLogPath(elogId, env) ==
    IF elogId \in env.logFail THEN Nullopt ELSE Some(BMCLogPath(elogId))

CreateFault(recordId, env) ==
    IF recordId \in env.ctorFail THEN "ctor"
    ELSE IF recordId \in env.enableFail THEN "enable"
    ELSE "none"

\* ---------------------------------------------------------- reconciliation
\* createEntryForRecord asking createEntry to roll the record back.
createEntryForRecordRollingBack(m, record, isRestorePath, env) ==
    LET entityPathRawData == convertEntityPathIntoRawData(record.targetId)
        resolved == record.recordId = ResolvedRecordId
        hint == entityPathRawData \in m.eco /\ isRestorePath
        inv == getInventoryPath(entityPathRawData, hint, env)
        m1 == updateEcoCoresList(m, inv.ecoCore, entityPathRawData)
        bmcErrorLogPath == getBMCLogPath(record.elogId, env)
        strBmcErrorLogPath == IF HasValue(bmcErrorLogPath)
                              THEN ValueOf(bmcErrorLogPath) ELSE ""
        entrySeverity == getEntrySeverityType(record.errType)
    IN  IF ~HasValue(inv.path) THEN m
        ELSE IF ~HasValue(bmcErrorLogPath) /\ ~isRestorePath THEN m1
        ELSE IF ~HasValue(entrySeverity) THEN m1
        ELSE createEntry(m1, record.recordId, resolved, ValueOf(entrySeverity),
                         ValueOf(inv.path), strBmcErrorLogPath, TRUE,
                         record.targetId, CreateFault(record.recordId, env)).m

\* Manager::createEntryForRecord
createEntryForRecord(m, record, isRestorePath, env) ==
    LET entityPathRawData == convertEntityPathIntoRawData(record.targetId)
        resolved == record.recordId = ResolvedRecordId
        hint == entityPathRawData \in m.eco /\ isRestorePath
        inv == getInventoryPath(entityPathRawData, hint, env)
        m1 == updateEcoCoresList(m, inv.ecoCore, entityPathRawData)
        bmcErrorLogPath == getBMCLogPath(record.elogId, env)
        strBmcErrorLogPath == IF HasValue(bmcErrorLogPath)
                              THEN ValueOf(bmcErrorLogPath) ELSE ""
        entrySeverity == getEntrySeverityType(record.errType)
    IN  IF ~HasValue(inv.path) THEN m
        ELSE IF ~HasValue(bmcErrorLogPath) /\ ~isRestorePath THEN m1
        ELSE IF ~HasValue(entrySeverity) THEN m1
        ELSE createEntry(m1, record.recordId, resolved, ValueOf(entrySeverity),
                         ValueOf(inv.path), strBmcErrorLogPath, FALSE,
                         record.targetId, CreateFault(record.recordId, env)).m

\* The update done by destroying the entry and making a new one of the
\* record, under the id of the record.
updateEntryForRecordRecreating(m, record, k, env) ==
    createEntryForRecord(eraseEntry(m, k), record, FALSE, env)

\* Manager::updateEntryForRecord, on the entry under key k. What
\* setEnabledProperty throws is not caught here.
updateEntryForRecord(m, record, k, env) ==
    LET entityPathRawData == convertEntityPathIntoRawData(record.targetId)
        inv == getInventoryPath(entityPathRawData, FALSE, env)
        m1 == updateEcoCoresList(m, inv.ecoCore, entityPathRawData)
        bmcErrorLogPath == getBMCLogPath(record.elogId, env)
        entrySeverity == getEntrySeverityType(record.errType)
        assoc == AssociationDef(ValueOf(inv.path), ValueOf(bmcErrorLogPath))
        updated == m.ih[k].severity # ValueOf(entrySeverity)
                   \/ m.ih[k].associations # assoc
        m2 == [m1 EXCEPT !.ih[k].severity = ValueOf(entrySeverity),
                         !.ih[k].associations = assoc]
    IN  IF ~HasValue(inv.path) THEN m
        ELSE IF ~HasValue(bmcErrorLogPath) THEN m1
        ELSE IF ~HasValue(entrySeverity) THEN m1
        ELSE IF record.recordId \in env.enableFail
             THEN [m2 EXCEPT !.raised = TRUE]
        ELSE Persisted([m2 EXCEPT !.stamped = IF updated
                                              THEN m2.stamped \cup {k}
                                              ELSE m2.stamped],
                       m2.ih[k].recordId)

\* The cleanup that only empties the set when the map is empty.
cleanupPersistedEcoCoresEmptyOnly(m) ==
    IF DOMAIN m.ih = {}
    THEN serialize([m EXCEPT !.eco = {}])
    ELSE m

\* Manager::cleanupPersistedEcoCores
cleanupPersistedEcoCores(m) ==
    IF DOMAIN m.ih = {}
    THEN serialize([m EXCEPT !.eco = {}])
    ELSE LET isNotIsolated(ecoCore) ==
                 \A k \in DOMAIN m.ih :
                     m.ih[k].entityPath # EntityPath(ecoCore, Len(ecoCore))
         IN  serialize([m EXCEPT !.eco = {c \in m.eco : ~isNotIsolated(c)}])

\* Manager::cleanupPersistedFiles: every file of the directory whose name
\* reads as the id of no entry is removed, then the eco cores are cleaned up.
\* A name std::stoul reads no number from makes it throw.
cleanupPersistedFiles(m) ==
    IF \E file \in m.files : ~HasValue(stoul(file))
    THEN [m EXCEPT !.raised = TRUE]
    ELSE cleanupPersistedEcoCores(
             [m EXCEPT !.files = {file \in m.files :
                                     ValueOf(stoul(file)) \in DOMAIN m.ih}])

\* Manager::restore: an entry for every valid record, then the cleanup.
RECURSIVE restoreEach(_, _, _)
restoreEach(m, records, env) ==
    IF records = <<>> THEN m
    ELSE restoreEach(createEntryForRecord(m, Head(records), TRUE, env),
                     Tail(records), env)

\* restore cleaning up the eco cores and leaving the files of the entries.
restoreKeepingFiles(m, env) ==
    LET records == getAll(m.guard, TRUE)
        validRecords == SelectSeq(records, LAMBDA r : isValidRecord(r.recordId))
    IN  cleanupPersistedEcoCores(restoreEach(m, validRecords, env))

restore(m, env) ==
    LET records == getAll(m.guard, TRUE)
        validRecords == SelectSeq(records, LAMBDA r : isValidRecord(r.recordId))
    IN  cleanupPersistedFiles(restoreEach(m, validRecords, env))

\* The loop with an entry whose hardware has only resolved records kept.
RECURSIVE reconcileEachKeepingResolved(_, _, _, _)
reconcileEachKeepingResolved(m, keys, records, env) ==
    IF keys = <<>> \/ m.raised THEN m
    ELSE LET k == Head(keys)
             entryRecords ==
                 SelectSeq(records, LAMBDA r : m.ih[k].entityPath = r.targetId)
             validEntryRecords ==
                 SelectSeq(entryRecords, LAMBDA r : isValidRecord(r.recordId))
             m1 == IF entryRecords = <<>>
                   THEN resolveEntry(m, k, FALSE, k \in env.resolveFail)
                   ELSE IF Len(validEntryRecords) = 1
                   THEN updateEntryForRecord(m, Head(validEntryRecords), k, env)
                   ELSE m
         IN  reconcileEachKeepingResolved(m1, Tail(keys), records, env)

\* The loop with the last of several valid records of an entry's hardware
\* taken as the record of the entry.
RECURSIVE reconcileEachLastWins(_, _, _, _)
reconcileEachLastWins(m, keys, records, env) ==
    IF keys = <<>> \/ m.raised THEN m
    ELSE LET k == Head(keys)
             entryRecords ==
                 SelectSeq(records, LAMBDA r : m.ih[k].entityPath = r.targetId)
             validEntryRecords ==
                 SelectSeq(entryRecords, LAMBDA r : isValidRecord(r.recordId))
             m1 == IF entryRecords = <<>>
                   THEN resolveEntry(m, k, FALSE, k \in env.resolveFail)
                   ELSE IF validEntryRecords = <<>>
                   THEN resolveEntry(m, k, FALSE, k \in env.resolveFail)
                   ELSE updateEntryForRecord(
                            m, validEntryRecords[Len(validEntryRecords)], k, env)
         IN  reconcileEachLastWins(m1, Tail(keys), records, env)

\* The loop of handleHostIsolatedHardwares over the entries, in key order.
RECURSIVE reconcileEach(_, _, _, _)
reconcileEach(m, keys, records, env) ==
    IF keys = <<>> \/ m.raised THEN m
    ELSE LET k == Head(keys)
             entryRecords ==
                 SelectSeq(records, LAMBDA r : m.ih[k].entityPath = r.targetId)
             validEntryRecords ==
                 SelectSeq(entryRecords, LAMBDA r : isValidRecord(r.recordId))
             m1 == IF entryRecords = <<>>
                   THEN resolveEntry(m, k, FALSE, k \in env.resolveFail)
                   ELSE IF validEntryRecords = <<>>
                   THEN resolveEntry(m, k, FALSE, k \in env.resolveFail)
                   ELSE IF Len(validEntryRecords) = 1
                   THEN updateEntryForRecord(m, Head(validEntryRecords), k, env)
                   ELSE m
         IN  reconcileEach(m1, Tail(keys), records, env)

\* createEntryIfNotExists over the valid records, in file order.
RECURSIVE createMissing(_, _, _)
createMissing(m, validRecords, env) ==
    IF validRecords = <<>> THEN m
    ELSE LET validRecord == Head(validRecords)
             recordExist == \E k \in DOMAIN m.ih :
                                validRecord.targetId = m.ih[k].entityPath
             m1 == IF ~recordExist
                   THEN createEntryForRecord(m, validRecord, FALSE, env)
                   ELSE m
         IN  createMissing(m1, Tail(validRecords), env)

\* The pass without _isolatedHardwares.clear() after the full reset.
handleHostIsolatedHardwaresNoClear(m, env) ==
    LET records == getAll(m.guard, TRUE)
        validRecords == SelectSeq(records, LAMBDA r : isValidRecord(r.recordId))
        looped == reconcileEach(m, SortedKeys(m.ih), records, env)
    IN  IF Len(records) = 0 /\ Cardinality(DOMAIN m.ih) > 0
        THEN resolveAllEntries(m, FALSE, env.resolveFail)
        ELSE IF looped.raised THEN looped
        ELSE cleanupPersistedEcoCores(createMissing(looped, validRecords, env))

\* Manager::handleHostIsolatedHardwares, after the timer is taken off the queue.
handleHostIsolatedHardwares(m, env) ==
    LET records == getAll(m.guard, TRUE)
        validRecords == SelectSeq(records, LAMBDA r : isValidRecord(r.recordId))
        looped == reconcileEach(m, SortedKeys(m.ih), records, env)
    IN  IF Len(records) = 0 /\ Cardinality(DOMAIN m.ih) > 0
        THEN LET resolvedAll == resolveAllEntries(m, FALSE, env.resolveFail)
             IN  [Destroyed(resolvedAll, DOMAIN resolvedAll.ih) EXCEPT
                     !.ih = EmptyMap]
        ELSE IF looped.raised THEN looped
        ELSE cleanupPersistedEcoCores(createMissing(looped, validRecords, env))

\* ------------------------------------------------------------ creation
\* The common end of create, createWithErrorLog and createWithEntityPath:
\* the stored record `made` is matched with an entry (updateEntry) or gets a
\* new one (createEntry, rolling the record back when that fails).
materialize(m, made, severity, isolateHardware, bmcErrorLog, fault) ==
    LET guardRecord == made.record
        m1 == [m EXCEPT !.guard = made.guard]
        ret == updateEntry(m1, guardRecord.recordId, severity, isolateHardware,
                           bmcErrorLog, guardRecord.targetId)
        created == createEntry(m1, guardRecord.recordId, FALSE, severity,
                               isolateHardware, bmcErrorLog, TRUE,
                               guardRecord.targetId, fault)
    IN  IF ret.found THEN [m |-> ret.m, ret |-> "ok", path |-> ret.path]
        ELSE IF ~HasValue(created.path)
             THEN [m |-> created.m, ret |-> "InternalFailure", path |-> Nullopt]
        ELSE [m |-> created.m, ret |-> "ok", path |-> created.path]

Thrown(m, error) == [m |-> m, ret |-> error, path |-> Nullopt]

\* Manager::getEID: eid is the numeric id of an error log, nullopt when the
\* logging service cannot be asked (eidFails: an SdBusError, caught). threw:
\* std::stoi of the last component of the path throws std::invalid_argument,
\* which the catch block for SdBusError lets through.
getEID(bmcErrorLog, eidFails) ==
    IF eidFails THEN [threw |-> FALSE, eid |-> Nullopt]
    ELSE IF ~HasValue(stoi(filename(bmcErrorLog)))
    THEN [threw |-> TRUE, eid |-> Nullopt]
    ELSE [threw |-> FALSE, eid |-> Some(EIDOf(bmcErrorLog))]

\* create writing the record before the severity is validated.
createRecordBeforeSeverity(m, isolateHardware, severity, io) ==
    LET allowed == isHwIsolationAllowed(severity, io.settingEnabled, io.powerState)
        devTreePhysicalPath == getPhysicalPath(isolateHardware)
        guardType == getGuardType(severity)
        early == GuardCreate(m.guard,
                             EntityPath(ValueOf(devTreePhysicalPath),
                                        Len(ValueOf(devTreePhysicalPath))),
                             0, "GARD_User_Manual")
    IN  IF allowed # "ok" THEN Thrown(m, allowed)
        ELSE IF ~HasValue(devTreePhysicalPath) THEN Thrown(m, "InvalidArgument")
        ELSE IF ~HasValue(guardType)
             THEN Thrown(IF early = {} THEN m
                         ELSE [m EXCEPT !.guard = (CHOOSE x \in early : TRUE).guard],
                         "InvalidArgument")
        ELSE IF ~HasValue(io.made) THEN Thrown(m, "GuardException")
        ELSE materialize(m, ValueOf(io.made), severity, isolateHardware, "",
                         io.fault)

\* Manager::create. io holds what the collaborators answer:
\*   settingEnabled, powerState   the policy sources
\*   made      what openpower_guard::create answers (<<>>: it throws)
\*   fault     what throws in createEntry
create(m, isolateHardware, severity, io) ==
    LET allowed == isHwIsolationAllowed(severity, io.settingEnabled, io.powerState)
        devTreePhysicalPath == getPhysicalPath(isolateHardware)
        guardType == getGuardType(severity)
    IN  IF allowed # "ok" THEN Thrown(m, allowed)
        ELSE IF ~HasValue(devTreePhysicalPath) THEN Thrown(m, "InvalidArgument")
        ELSE IF ~HasValue(guardType) THEN Thrown(m, "InvalidArgument")
        ELSE IF ~HasValue(io.made) THEN Thrown(m, "GuardException")
        ELSE materialize(m, ValueOf(io.made), severity, isolateHardware, "",
                         io.fault)

\* Manager::createWithErrorLog. io also holds eidFails (getEID finds no id).
createWithErrorLog(m, isolateHardware, severity, bmcErrorLog, io) ==
    LET allowed == isHwIsolationAllowed(severity, io.settingEnabled, io.powerState)
        devTreePhysicalPath == getPhysicalPath(isolateHardware)
        eId == getEID(bmcErrorLog, io.eidFails)
        guardType == getGuardType(severity)
    IN  IF allowed # "ok" THEN Thrown(m, allowed)
        ELSE IF ~HasValue(devTreePhysicalPath) THEN Thrown(m, "InvalidArgument")
        ELSE IF eId.threw THEN Thrown(m, "std::invalid_argument")
        ELSE IF ~HasValue(eId.eid) THEN Thrown(m, "InvalidArgument")
        ELSE IF ~HasValue(guardType) THEN Thrown(m, "InvalidArgument")
        ELSE IF ~HasValue(io.made) THEN Thrown(m, "GuardException")
        ELSE materialize(m, ValueOf(io.made), severity, isolateHardware,
                         bmcErrorLog, io.fault)

\* createWithEntityPath asking the catalog before the gate.
createWithEntityPathCatalogFirst(m, entityPath, severity, bmcErrorLog, io) ==
    LET allowed == isHwIsolationAllowed(severity, io.settingEnabled, io.powerState)
        inv == getInventoryPath(entityPath, FALSE, io.env)
        m1 == updateEcoCoresList(m, inv.ecoCore, entityPath)
        eId == getEID(bmcErrorLog, io.eidFails)
        guardType == getGuardType(severity)
    IN  IF ~HasValue(inv.path) THEN Thrown(m, "InvalidArgument")
        ELSE IF allowed # "ok" THEN Thrown(m1, allowed)
        ELSE IF eId.threw THEN Thrown(m1, "std::invalid_argument")
        ELSE IF ~HasValue(eId.eid) THEN Thrown(m1, "InvalidArgument")
        ELSE IF ~HasValue(guardType) THEN Thrown(m1, "InvalidArgument")
        ELSE IF ~HasValue(io.made) THEN Thrown(m1, "GuardException")
        ELSE materialize(m1, ValueOf(io.made), severity, ValueOf(inv.path),
                         bmcErrorLog, io.fault)

\* createWithEntityPath adding an eco core to the list and never dropping one.
createWithEntityPathAddingOnly(m, entityPath, severity, bmcErrorLog, io) ==
    LET allowed == isHwIsolationAllowed(severity, io.settingEnabled, io.powerState)
        inv == getInventoryPath(entityPath, FALSE, io.env)
        m1 == IF inv.ecoCore THEN updateEcoCoresList(m, TRUE, entityPath) ELSE m
        eId == getEID(bmcErrorLog, io.eidFails)
        guardType == getGuardType(severity)
    IN  IF allowed # "ok" THEN Thrown(m, allowed)
        ELSE IF ~HasValue(inv.path) THEN Thrown(m, "InvalidArgument")
        ELSE IF eId.threw THEN Thrown(m1, "std::invalid_argument")
        ELSE IF ~HasValue(eId.eid) THEN Thrown(m1, "InvalidArgument")
        ELSE IF ~HasValue(guardType) THEN Thrown(m1, "InvalidArgument")
        ELSE IF ~HasValue(io.made) THEN Thrown(m1, "GuardException")
        ELSE materialize(m1, ValueOf(io.made), severity, ValueOf(inv.path),
                         bmcErrorLog, io.fault)

\* Manager::createWithEntityPath. io also holds env, the catalog's answers.
createWithEntityPath(m, entityPath, severity, bmcErrorLog, io) ==
    LET allowed == isHwIsolationAllowed(severity, io.settingEnabled, io.powerState)
        inv == getInventoryPath(entityPath, FALSE, io.env)
        m1 == updateEcoCoresList(m, inv.ecoCore, entityPath)
        eId == getEID(bmcErrorLog, io.eidFails)
        guardType == getGuardType(severity)
    IN  IF allowed # "ok" THEN Thrown(m, allowed)
        ELSE IF ~HasValue(inv.path) THEN Thrown(m, "InvalidArgument")
        ELSE IF eId.threw THEN Thrown(m1, "std::invalid_argument")
        ELSE IF ~HasValue(eId.eid) THEN Thrown(m1, "InvalidArgument")
        ELSE IF ~HasValue(guardType) THEN Thrown(m1, "InvalidArgument")
        ELSE IF ~HasValue(io.made) THEN Thrown(m1, "GuardException")
        ELSE materialize(m1, ValueOf(io.made), severity, ValueOf(inv.path),
                         bmcErrorLog, io.fault)

\* ----------------------------------------------------------------- state
VARIABLES
    guard,              \* the guard store: the records of the guard file, in order
    isolatedHardwares,  \* Manager::_isolatedHardwares
    persistedEcoCores,  \* Manager::_persistedEcoCores
    ecoFile,            \* the persisted eco_cores file
    entryFiles,         \* the files of the directory the entries persist to
    timerObjs,          \* Manager::_timerObjs, the queue of armed timers
    restored,           \* restore() has run
    dispatched,         \* what the event loop dispatched, where it is counted
    last                \* the last handler that ran and what it answered

vars == <<guard, isolatedHardwares, persistedEcoCores, ecoFile, entryFiles,
          timerObjs, restored, dispatched, last>>

\* Chassis power states the policy source can report.
PowerStates == {"Off", "On"}

\* A timer of _timerObjs: bound to handleHostIsolatedHardwares, destroyed by
\* the pass it starts, expiring TimerDelaySeconds after the signal that armed
\* it. armed is the number of that signal where the signals are counted, and
\* 0 elsewhere.
TimerAt(armed) == [callback |-> "handleHostIsolatedHardwares",
                   interval |-> TimerDelaySeconds, armed |-> armed]
Timer == TimerAt(0)

\* The manager's members as the record the handlers work on.
M == [ih |-> isolatedHardwares, eco |-> persistedEcoCores, ecoFile |-> ecoFile,
      files |-> entryFiles, guard |-> guard, stamped |-> {}, tried |-> <<>>, raised |-> FALSE]

Commit(m) ==
    /\ isolatedHardwares' = m.ih
    /\ persistedEcoCores' = m.eco
    /\ ecoFile' = m.ecoFile
    /\ entryFiles' = m.files
    /\ guard' = m.guard

\* The inputs of the policy gate.
GateInputs ==
    [severity : EntrySeverities, settingEnabled : BOOLEAN,
     powerState : PowerStates]
\* The same, an input the gate does not read drawn as one value only.
ConsultedGateInputs ==
    {g \in GateInputs :
        /\ ~g.settingEnabled => g.severity = "Manual"
        /\ (~g.settingEnabled \/ g.severity # "Manual") => g.powerState = "Off"}
\* The calls of create, the operator's call: not with Critical where the
\* setting lets it pass.
ManualCalls == {g \in GateInputs : g.settingEnabled => g.severity # "Critical"}
\* The calls of createWithErrorLog and createWithEntityPath, the calls for a
\* hardware error: not a Manual call the gate lets pass.
ErrorLogCalls ==
    {g \in GateInputs :
        isHwIsolationAllowed(g.severity, g.settingEnabled, g.powerState) = "ok"
            => g.severity # "Manual"}
NoGate == [severity |-> "Manual", settingEnabled |-> FALSE, powerState |-> "Off"]

\* No collaborator fails and no core is classified as an eco core.
NoEnv == [invFail |-> {}, ecoCls |-> {}, logFail |-> {}, resolveFail |-> {},
          ctorFail |-> {}, enableFail |-> {}]

\* What `last` records of a handler:
\*   op, ret       the handler and its outcome
\*   gate          the gate's inputs, where the caller records them
\*   made          the record the guard store answered to a create call
\*   path          the object path a create call returned
\*   failed        a collaborator failed during the restore or the pass: a
\*                 lookup found nothing, or a call threw
Did(op, ret, gate, made, path, failed) ==
    [op |-> op, ret |-> ret, gate |-> gate, made |-> made, path |-> path,
     failed |-> failed]

Ran(op, ret) == Did(op, ret, NoGate, Nullopt, Nullopt, FALSE)
\* A handler `last` keeps no detail of.
Other == Ran("other", "returned")

ValidRecordsOf(g) ==
    SelectSeq(getAll(g, TRUE), LAMBDA r : isValidRecord(r.recordId))

SeqRange(sq) == {sq[i] : i \in DOMAIN sq}

\* What the collaborators can answer during a restore or a pass on m: no
\* failure, or one failure, of one collaborator on one item; with every
\* classification of the cores on record.
PassEnvs(m) ==
    LET valid == SeqRange(ValidRecordsOf(m.guard))
        paths == {convertEntityPathIntoRawData(r.targetId) : r \in valid}
        ids == {r.recordId : r \in valid}
        eids == {r.elogId : r \in valid} \ {0}
        one == {NoEnv}
               \cup {[NoEnv EXCEPT !.invFail = {x}] : x \in paths}
               \cup {[NoEnv EXCEPT !.logFail = {x}] : x \in eids}
               \cup {[NoEnv EXCEPT !.resolveFail = {x}] : x \in DOMAIN m.ih}
               \cup {[NoEnv EXCEPT !.ctorFail = {x}] : x \in ids}
               \cup {[NoEnv EXCEPT !.enableFail = {x}] : x \in ids}
    IN  {[e EXCEPT !.ecoCls = c] :
            e \in one, c \in SUBSET (paths \cap CorePaths)}

Failed(env) == [env EXCEPT !.ecoCls = {}] # NoEnv

\* The state after construction: the constructor reads the eco_cores file,
\* which an earlier run left absent or holding a set that is not empty. The
\* earlier run also left the files of the entries it had.
Init ==
    /\ guard = <<>>
    /\ isolatedHardwares = EmptyMap
    /\ ecoFile \in {Nullopt} \cup {Some(save(c)) : c \in SUBSET CorePaths \ {{}}}
    /\ persistedEcoCores = deserialize(ecoFile)
    /\ entryFiles \in SUBSET {EntryFile(k) : k \in RecordIds}
    /\ timerObjs = <<>>
    /\ restored = FALSE
    /\ dispatched = [signals |-> 0, passes |-> 0, expired |-> Nullopt,
                     taken |-> Nullopt]
    /\ last = Ran("init", "ok")

\* ---------------------------------------------------------------- actions
\* Manager::restore, once, at startup.
Restore ==
    /\ ~restored
    /\ \E env \in PassEnvs(M) : \E m \in {restore(M, env)} :
        /\ Commit(m)
        /\ last' = Did("restore", "done", NoGate, Nullopt, Nullopt,
                       Failed(env))
    /\ restored' = TRUE
    /\ UNCHANGED <<timerObjs, dispatched>>

\* The signal with a single timer slot: absorbed while a timer is pending.
ProcessHardwareIsolationRecordFileSingleSlot ==
    /\ restored
    /\ Len(timerObjs) < MaxTimers
    /\ timerObjs' = IF timerObjs # <<>> THEN timerObjs
                    ELSE Append(timerObjs, Timer)
    /\ last' = Ran("signal", "armed")
    /\ UNCHANGED <<guard, isolatedHardwares, persistedEcoCores, ecoFile,
                   entryFiles, restored, dispatched>>

\* The signal putting its timer at the front of _timerObjs.
ProcessHardwareIsolationRecordFileCallFront(counted) ==
    /\ restored
    /\ Len(timerObjs) < MaxTimers
    /\ counted => dispatched.signals < MaxSignals
    /\ \E throws \in BOOLEAN :
        /\ timerObjs' = IF throws THEN timerObjs
                        ELSE <<TimerAt(IF counted THEN dispatched.signals + 1
                                       ELSE 0)>> \o timerObjs
        /\ last' = Ran("signal", IF throws THEN "failed" ELSE "armed")
    /\ dispatched' = IF counted
                     THEN [dispatched EXCEPT !.signals = dispatched.signals + 1]
                     ELSE dispatched
    /\ UNCHANGED <<guard, isolatedHardwares, persistedEcoCores, ecoFile,
                   entryFiles, restored>>

\* Manager::processHardwareIsolationRecordFile: the guard file changed. A
\* timer is put at the back of _timerObjs unless making it throws. counted:
\* the signal is counted, of MaxSignals at most.
ProcessHardwareIsolationRecordFileCall(counted) ==
    /\ restored
    /\ Len(timerObjs) < MaxTimers
    /\ counted => dispatched.signals < MaxSignals
    /\ \E throws \in BOOLEAN :
        /\ timerObjs' = IF throws THEN timerObjs
                        ELSE Append(timerObjs,
                                    TimerAt(IF counted
                                            THEN dispatched.signals + 1 ELSE 0))
        /\ last' = Ran("signal", IF throws THEN "failed" ELSE "armed")
    /\ dispatched' = IF counted
                     THEN [dispatched EXCEPT !.signals = dispatched.signals + 1]
                     ELSE dispatched
    /\ UNCHANGED <<guard, isolatedHardwares, persistedEcoCores, ecoFile,
                   entryFiles, restored>>

ProcessHardwareIsolationRecordFile ==
    ProcessHardwareIsolationRecordFileCall(FALSE)
ProcessHardwareIsolationRecordFileCounted ==
    ProcessHardwareIsolationRecordFileCall(TRUE)

\* Manager::handleHostIsolatedHardwares: a timer expired, of the pending
\* timers the one that was armed first. The timer at the front is taken off
\* the queue, then the pass runs; "aborted": an exception left it. counted:
\* the pass is counted, with the timer that expired and the timer taken.
HandleHostIsolatedHardwaresCall(counted) ==
    /\ timerObjs # <<>>
    /\ timerObjs' = Tail(timerObjs)
    /\ \E expired \in {t \in SeqRange(timerObjs) :
                          \A u \in SeqRange(timerObjs) : t.armed <= u.armed} :
        dispatched' = IF counted
                      THEN [dispatched EXCEPT !.passes = dispatched.passes + 1,
                                              !.expired = Some(expired),
                                              !.taken = Some(Head(timerObjs))]
                      ELSE dispatched
    /\ \E env \in PassEnvs(M) :
        \E m \in {handleHostIsolatedHardwares(M, env)} :
            /\ Commit(m)
            /\ last' = IF m.raised THEN Ran("timer", "aborted")
                       ELSE Did("timer", "done", NoGate, Nullopt, Nullopt,
                                Failed(env))
    /\ UNCHANGED restored

HandleHostIsolatedHardwares == HandleHostIsolatedHardwaresCall(FALSE)
HandleHostIsolatedHardwaresCounted == HandleHostIsolatedHardwaresCall(TRUE)

\* What can throw in createEntry.
Faults == {"none", "ctor", "enable"}

\* What can throw in the createEntry of a create call: nothing where the
\* store made no record or updateEntry finds the entry of the record.
FaultsFor(made) ==
    IF HasValue(made)
       /\ ~\E k \in DOMAIN isolatedHardwares :
              /\ isolatedHardwares[k].entityPath = ValueOf(made).record.targetId
              /\ isolatedHardwares[k].recordId = ValueOf(made).record.recordId
    THEN Faults ELSE {"none"}

\* What a create call leaves in `last`.
Created(op, gate, made, r) ==
    Did(op, r.ret, gate,
        IF r.ret \in {"ok", "InternalFailure"} THEN Some(ValueOf(made).record)
        ELSE Nullopt,
        r.path, FALSE)

\* The same, kept only where the call is recorded.
Noted(recorded, op, gate, made, r) ==
    IF recorded THEN Created(op, gate, made, r) ELSE Other

\* A call of Manager::create, its gate inputs drawn from `gates`.
CreateCall(gates, recorded) ==
    /\ restored
    /\ \E g \in gates :
        LET allowed == isHwIsolationAllowed(g.severity, g.settingEnabled,
                                            g.powerState) = "ok"
        IN  \E isolateHardware \in IF allowed
                                   THEN InventoryPaths \cup {UnknownInventoryPath}
                                   ELSE {UnknownInventoryPath} :
            LET phys == getPhysicalPath(isolateHardware)
                type == getGuardType(g.severity)
                mades == IF allowed /\ HasValue(phys) /\ HasValue(type)
                         THEN {Some(x) : x \in GuardCreate(guard,
                                   EntityPath(ValueOf(phys), Len(ValueOf(phys))),
                                   0, ValueOf(type))} \cup {Nullopt}
                         ELSE {Nullopt}
            IN  \E made \in mades :
                \E fault \in FaultsFor(made) :
                    LET io == [settingEnabled |-> g.settingEnabled,
                               powerState |-> g.powerState,
                               made |-> made, fault |-> fault]
                    IN  \E r \in {create(M, isolateHardware, g.severity, io)} :
                        /\ Commit(r.m)
                        /\ last' = Noted(recorded, "create", g, made, r)
    /\ UNCHANGED <<timerObjs, restored, dispatched>>

Create == CreateCall(ManualCalls \cap ConsultedGateInputs, FALSE)
CreateRecorded == CreateCall(ManualCalls, TRUE)

\* A call of Manager::createWithErrorLog.
CreateWithErrorLogCall(gates, recorded) ==
    /\ restored
    /\ \E g \in gates :
        LET allowed == isHwIsolationAllowed(g.severity, g.settingEnabled,
                                            g.powerState) = "ok"
        IN  \E isolateHardware \in IF allowed
                                   THEN InventoryPaths \cup {UnknownInventoryPath}
                                   ELSE {UnknownInventoryPath} :
            \E bmcErrorLog \in IF allowed /\ HasValue(getPhysicalPath(isolateHardware))
                               THEN BmcErrorLogs ELSE {BMCLogPath(1)} :
            \E eidFails \in IF allowed /\ HasValue(getPhysicalPath(isolateHardware))
                            THEN BOOLEAN ELSE {FALSE} :
            LET phys == getPhysicalPath(isolateHardware)
                eId == getEID(bmcErrorLog, eidFails)
                type == getGuardType(g.severity)
                mades == IF allowed /\ HasValue(phys) /\ HasValue(eId.eid)
                            /\ HasValue(type)
                         THEN {Some(x) : x \in GuardCreate(guard,
                                   EntityPath(ValueOf(phys), Len(ValueOf(phys))),
                                   ValueOf(eId.eid), ValueOf(type))} \cup {Nullopt}
                         ELSE {Nullopt}
            IN  \E made \in mades :
                \E fault \in FaultsFor(made) :
                    LET io == [settingEnabled |-> g.settingEnabled,
                               powerState |-> g.powerState,
                               eidFails |-> eidFails,
                               made |-> made, fault |-> fault]
                    IN  \E r \in {createWithErrorLog(M, isolateHardware,
                                       g.severity, bmcErrorLog, io)} :
                        /\ Commit(r.m)
                        /\ last' = Noted(recorded, "createWithErrorLog", g, made, r)
    /\ UNCHANGED <<timerObjs, restored, dispatched>>

CreateWithErrorLog ==
    CreateWithErrorLogCall(ErrorLogCalls \cap ConsultedGateInputs, FALSE)
CreateWithErrorLogRecorded == CreateWithErrorLogCall(ErrorLogCalls, TRUE)

\* A call of Manager::createWithEntityPath.
CreateWithEntityPathCall(gates, recorded) ==
    /\ restored
    /\ \E g \in gates :
        LET allowed == isHwIsolationAllowed(g.severity, g.settingEnabled,
                                            g.powerState) = "ok"
        IN  \E entityPath \in IF allowed THEN RawPaths ELSE {<<1>>} :
            \E invFail \in IF allowed THEN {{}, {entityPath}} ELSE {{}} :
            \E bmcErrorLog \in IF allowed /\ invFail = {}
                               THEN BmcErrorLogs ELSE {BMCLogPath(1)} :
            \E ecoCls \in IF allowed /\ invFail = {}
                          THEN SUBSET ({entityPath} \cap CorePaths) ELSE {{}} :
            \E eidFails \in IF allowed /\ invFail = {} THEN BOOLEAN ELSE {FALSE} :
            LET env == [NoEnv EXCEPT !.invFail = invFail, !.ecoCls = ecoCls]
                eId == getEID(bmcErrorLog, eidFails)
                type == getGuardType(g.severity)
                mades == IF allowed /\ invFail = {} /\ HasValue(eId.eid)
                            /\ HasValue(type)
                         THEN {Some(x) : x \in GuardCreate(guard,
                                   EntityPath(entityPath, Len(entityPath)),
                                   ValueOf(eId.eid), ValueOf(type))} \cup {Nullopt}
                         ELSE {Nullopt}
            IN  \E made \in mades :
                \E fault \in FaultsFor(made) :
                    LET io == [settingEnabled |-> g.settingEnabled,
                               powerState |-> g.powerState,
                               eidFails |-> eidFails, env |-> env,
                               made |-> made, fault |-> fault]
                    IN  \E r \in {createWithEntityPath(M, entityPath,
                                       g.severity, bmcErrorLog, io)} :
                        /\ Commit(r.m)
                        /\ last' = Noted(recorded, "createWithEntityPath", g, made, r)
    /\ UNCHANGED <<timerObjs, restored, dispatched>>

CreateWithEntityPath ==
    CreateWithEntityPathCall(ErrorLogCalls \cap ConsultedGateInputs, FALSE)
CreateWithEntityPathRecorded == CreateWithEntityPathCall(ErrorLogCalls, TRUE)

\* deleteAll resolving the entries whatever isHwDeisolationAllowed answers.
deleteAllUngated(m, allowed, resolveFail) ==
    [m |-> resolveAllEntries(m, TRUE, resolveFail),
     ret |-> IF allowed THEN "ok" ELSE "NotAllowed"]

\* Manager::deleteAll: isHwDeisolationAllowed throws unless allowed.
deleteAll(m, allowed, resolveFail) ==
    IF ~allowed THEN [m |-> m, ret |-> "NotAllowed"]
    ELSE [m |-> resolveAllEntries(m, TRUE, resolveFail), ret |-> "ok"]

DeleteAllCall(recorded) ==
    /\ restored
    /\ \E allowed \in BOOLEAN :
       \E resolveFail \in {{}} \cup (IF allowed
                                    THEN {{k} : k \in DOMAIN isolatedHardwares}
                                    ELSE {}) :
        \E r \in {deleteAll(M, allowed, resolveFail)} :
            /\ Commit(r.m)
            /\ last' = IF recorded THEN Ran("deleteAll", r.ret) ELSE Other
    /\ UNCHANGED <<timerObjs, restored, dispatched>>

DeleteAll == DeleteAllCall(FALSE)
DeleteAllRecorded == DeleteAllCall(TRUE)

\* A caller resolves one entry: Entry::resolveEntry with the record cleared.
ResolveEntryCall(recorded) ==
    /\ restored
    /\ \E k \in DOMAIN isolatedHardwares, fails \in BOOLEAN :
        \E m \in {resolveEntry(M, k, TRUE, fails)} :
            /\ Commit(m)
            /\ last' = IF recorded
                       THEN Ran("resolve", IF m.raised THEN "failed" ELSE "ok")
                       ELSE Other
    /\ UNCHANGED <<timerObjs, restored, dispatched>>

ResolveEntry == ResolveEntryCall(FALSE)
ResolveEntryRecorded == ResolveEntryCall(TRUE)

\* The host firmware writes the guard file: it adds a record under an id no
\* valid record uses, resolves a record, or empties the file.
HostCreate ==
    /\ \E rec \in {r \in HostRecords : isValidRecord(r.recordId)
                                        /\ r.recordId \notin ValidIds(guard)} :
        /\ HasValue(GuardPut(guard, rec))
        /\ guard' = ValueOf(GuardPut(guard, rec))
    /\ last' = Other
    /\ UNCHANGED <<isolatedHardwares, persistedEcoCores, ecoFile, entryFiles,
                   timerObjs, restored, dispatched>>

HostClear ==
    /\ \E id \in ValidIds(guard) : guard' = GuardClear(guard, id)
    /\ last' = Other
    /\ UNCHANGED <<isolatedHardwares, persistedEcoCores, ecoFile, entryFiles,
                   timerObjs, restored, dispatched>>

HostReset ==
    /\ guard # <<>>
    /\ guard' = <<>>
    /\ last' = Other
    /\ UNCHANGED <<isolatedHardwares, persistedEcoCores, ecoFile, entryFiles,
                   timerObjs, restored, dispatched>>

Next ==
    \/ Restore
    \/ ProcessHardwareIsolationRecordFile
    \/ HandleHostIsolatedHardwares
    \/ Create
    \/ CreateWithErrorLog
    \/ CreateWithEntityPath
    \/ DeleteAll
    \/ ResolveEntry
    \/ HostCreate
    \/ HostClear
    \/ HostReset

Spec == Init /\ [][Next]_vars

\* The calls, each recorded in `last` with its inputs and its answer, while
\* the host resolves records and empties the guard file.
NextCalls ==
    \/ Restore
    \/ CreateRecorded
    \/ CreateWithErrorLogRecorded
    \/ CreateWithEntityPathRecorded
    \/ DeleteAllRecorded
    \/ ResolveEntryRecorded
    \/ HostClear
    \/ HostReset

SpecCalls == Init /\ [][NextCalls]_vars

\* The host firmware adds a record to a guard file of MaxHostRecords records:
\* a manual guard without an error log or a fatal guard with one, of any
\* hardware, under an id no valid record uses.
HostCreateWide ==
    /\ Len(guard) < MaxHostRecords
    /\ \E recordId \in {MinOf((1..MaxHostRecords) \ ValidIds(guard))},
          targetId \in EntityPaths,
          kind \in {<<"GARD_User_Manual", 0>>, <<"GARD_Fatal", 1>>} :
        guard' = Append(guard, [recordId |-> recordId, targetId |-> targetId,
                                errType |-> kind[1], elogId |-> kind[2]])
    /\ last' = Other
    /\ UNCHANGED <<isolatedHardwares, persistedEcoCores, ecoFile, entryFiles,
                   timerObjs, restored, dispatched>>

\* The manager restores and reconciles while the host alone writes the guard
\* file, adding and resolving records, no caller creating or resolving
\* anything.
NextHost ==
    \/ Restore
    \/ ProcessHardwareIsolationRecordFile
    \/ HandleHostIsolatedHardwares
    \/ HostCreateWide
    \/ HostClear

SpecHost == Init /\ [][NextHost]_vars

\* The same under a fair event loop: a timer of _timerObjs is a one-shot
\* timer of TimerDelaySeconds, which the event loop lets expire, and nothing
\* but the pass takes a timer off the queue, so a pass that can run does run.
SpecFair == Init /\ [][NextHost]_vars /\ WF_vars(HandleHostIsolatedHardwares)

\* The signals and the passes counted, MaxSignals signals at most, each timer
\* carrying the number of the signal that armed it, while the host adds and
\* resolves records.
NextTimers ==
    \/ Restore
    \/ ProcessHardwareIsolationRecordFileCounted
    \/ HandleHostIsolatedHardwaresCounted
    \/ HostCreate
    \/ HostClear

SpecTimers == Init /\ [][NextTimers]_vars

\* ----------------------------------------------------------------- claims
CreateOps == {"create", "createWithErrorLog", "createWithEntityPath"}

\* The pass that `last` records ran to its end.
PassDone == last.op = "timer" /\ last.ret = "done"

\* The entries of the map, as the set of their keys, of one entity path.
EntriesOf(entityPath) ==
    {k \in DOMAIN isolatedHardwares :
        isolatedHardwares[k].entityPath = entityPath}

\* The valid records of the snapshot getAll(true) of the store, as a set.
Snapshot == SeqRange(ValidRecordsOf(guard))

\* C1 as stated: in every reachable state at most one timer is pending, a
\* signal that arrives while a timer is pending creates no second one.
C1_AtMostOneTimerPending == Len(timerObjs) <= 1

\* C1 amended: every file-change signal whose timer can be made puts a new
\* timer at the back of the queue, whether or not timers are already pending,
\* so a burst of n signals leaves n timers pending and leads to n passes.
C1_EverySignalQueuesATimer ==
    [][(last'.op = "signal" /\ last'.ret = "armed")
        => timerObjs' = Append(timerObjs, Timer)]_vars

\* Two signals arrived inside one delay window: two timers are pending.
C1_TwoTimersPending == last.op = "signal" /\ Len(timerObjs) = 2

\* C2: after a completed pass, and after restore, every entry of the map has
\* an entity path of which the snapshot holds a valid, non-ephemeral record.
C2_EntriesHaveValidRecords ==
    ((last.op = "restore" \/ PassDone))
        => \A k \in DOMAIN isolatedHardwares :
            \E r \in Snapshot : r.targetId = isolatedHardwares[k].entityPath

\* A pass completed on a snapshot that holds a resolved record, and entries
\* remain.
C2_PassKeptMatchedEntries ==
    /\ PassDone
    /\ DOMAIN isolatedHardwares # {}
    /\ \E i \in DOMAIN guard : ~isValidRecord(guard[i].recordId)

\* C3 as stated: after a completed pass in which every catalog, error-log
\* and severity lookup succeeded, every valid record of the snapshot has an
\* entry of its entity path. Checked for the passes in which no collaborator
\* failed at all.
C3_EveryValidRecordHasEntry ==
    (PassDone /\ ~last.failed)
        => \A r \in Snapshot : EntriesOf(r.targetId) # {}

\* The snapshot has at most one valid record for every entity path (I1).
OneValidRecordPerPath ==
    \A r1, r2 \in Snapshot : r1.targetId = r2.targetId => r1 = r2

\* C4 as stated: after a completed pass on a snapshot with at most one valid
\* record for every entity path, no two entries have the same entity path.
C4_UniqueEntityPath ==
    (PassDone /\ OneValidRecordPerPath)
        => \A p \in EntityPaths : Cardinality(EntriesOf(p)) <= 1

\* C5 as stated: a pass run twice in succession, the store and every answer
\* of the collaborators the same both times, changes nothing the second time:
\* the same entries, eco cores and eco_cores file, and no timestamp written.
C5_SecondPassChangesNothing ==
    timerObjs # <<>> =>
        \A env \in PassEnvs(M) :
            LET first == handleHostIsolatedHardwares(M, env)
                second == handleHostIsolatedHardwares(
                              [first EXCEPT !.stamped = {}], env)
            IN  ~first.raised
                    => /\ second.ih = first.ih
                       /\ second.eco = first.eco
                       /\ second.ecoFile = first.ecoFile
                       /\ second.guard = first.guard
                       /\ second.stamped = {}

\* C6: in every reachable state no key of the map and no entry's record id
\* is 0xFFFFFFFF: restore and the pass make no entry of a resolved record.
C6_NoSentinelKey ==
    \A k \in DOMAIN isolatedHardwares :
        /\ k # ResolvedRecordId
        /\ isolatedHardwares[k].recordId # ResolvedRecordId

\* Restore or a pass ran on a store that holds a resolved record and left
\* entries in the map.
C6_ResolvedRecordSkipped ==
    /\ last.op \in {"restore", "timer"}
    /\ \E i \in DOMAIN guard : guard[i].recordId = ResolvedRecordId
    /\ DOMAIN isolatedHardwares # {}

\* C7: when a create call got its record from the store and the entry could
\* not be made, the caller sees InternalFailure and no valid record of the
\* store has the id of that record; InternalFailure is seen in no other case.
C7_CompensatingCreate ==
    last.op \in CreateOps =>
        /\ (HasValue(last.made) /\ ~HasValue(last.path))
              => last.ret = "InternalFailure"
        /\ last.ret = "InternalFailure"
              => /\ HasValue(last.made)
                 /\ ValueOf(last.made).recordId \notin ValidIds(guard)

\* A create call failed with InternalFailure after the store made its record.
C7_MaterializationFailed ==
    /\ last.op \in CreateOps
    /\ last.ret = "InternalFailure"
    /\ HasValue(last.made)

\* C8: a create call fails with Unavailable exactly when the setting is off,
\* with NotAllowed exactly when the setting is on, the severity Manual and
\* the power state not Off; in every other case the gate lets it pass.
C8_GateTruthTable ==
    last.op \in CreateOps =>
        /\ last.ret = "Unavailable" <=> ~last.gate.settingEnabled
        /\ last.ret = "NotAllowed"
              <=> /\ last.gate.settingEnabled
                  /\ last.gate.severity = "Manual"
                  /\ last.gate.powerState # "Off"

\* A Critical create was accepted while the chassis was powered on.
C8_CriticalAcceptedPoweredOn ==
    /\ last.op \in CreateOps
    /\ last.ret = "ok"
    /\ last.gate.severity = "Critical"
    /\ last.gate.powerState = "On"

\* C9: a create call the gate rejects with Unavailable or NotAllowed changes
\* neither the store nor the map nor the eco cores nor their file.
C9_RejectedCallChangesNothing ==
    [][(last'.op \in CreateOps /\ last'.ret \in {"Unavailable", "NotAllowed"})
        => UNCHANGED <<guard, isolatedHardwares, persistedEcoCores,
                       ecoFile>>]_vars

\* The gate rejected a create call while entries, records and an eco core
\* were there to change.
C9_RejectedWithStatePresent ==
    /\ last.op \in CreateOps
    /\ last.ret \in {"Unavailable", "NotAllowed"}
    /\ DOMAIN isolatedHardwares # {}
    /\ guard # <<>>
    /\ persistedEcoCores # {}

DuplicatedPaths ==
    {p \in EntityPaths : Cardinality({r \in Snapshot : r.targetId = p}) > 1}

\* The keys of the entries of one entity path in a map.
KeysOf(ih, entityPath) == {k \in DOMAIN ih : ih[k].entityPath = entityPath}

\* C12: a pass on a snapshot with more than one valid record of the hardware
\* of an entry leaves that entry under its key with every field and its
\* timestamp as they were and makes no other entry of that hardware, whatever
\* the collaborators answer; where no collaborator fails no exception leaves
\* the pass, every entry whose hardware has no valid record is resolved, every
\* entry whose hardware has one valid record carries its severity, and every
\* valid record of other hardware has an entry or finds its key taken.
C12_DuplicatesLeaveEntryUntouched ==
    timerObjs # <<>> =>
        \A env \in PassEnvs(M) :
            LET m == handleHostIsolatedHardwares(M, env)
            IN  \A k \in DOMAIN isolatedHardwares :
                LET p == isolatedHardwares[k].entityPath
                IN  p \in DuplicatedPaths =>
                    /\ k \in DOMAIN m.ih
                    /\ m.ih[k] = isolatedHardwares[k]
                    /\ k \notin m.stamped
                    /\ KeysOf(m.ih, p) = EntriesOf(p)
                    /\ ~Failed(env) =>
                        /\ ~m.raised
                        /\ \A j \in DOMAIN isolatedHardwares :
                            LET q == isolatedHardwares[j].entityPath
                                recs == {r \in Snapshot : r.targetId = q}
                            IN  /\ recs = {} => j \notin KeysOf(m.ih, q)
                                /\ Cardinality(recs) = 1 =>
                                    /\ j \in KeysOf(m.ih, q)
                                    /\ \A r \in recs :
                                        Some(m.ih[j].severity) =
                                            getEntrySeverityType(r.errType)
                        /\ \A r \in Snapshot :
                            \/ KeysOf(m.ih, r.targetId) # {}
                            \/ r.recordId \in DOMAIN m.ih

\* A pass ran to its end on a snapshot with two valid records of the
\* hardware of an entry, one of them of another severity than the entry, and
\* a valid record of other hardware, which has its entry.
C12_PassOverDuplicates ==
    /\ PassDone
    /\ \E k \in DOMAIN isolatedHardwares :
        LET p == isolatedHardwares[k].entityPath
        IN  /\ p \in DuplicatedPaths
            /\ \E r \in Snapshot :
                /\ r.targetId = p
                /\ getEntrySeverityType(r.errType)
                       # Some(isolatedHardwares[k].severity)
            /\ \E r \in Snapshot :
                /\ r.targetId # p
                /\ EntriesOf(r.targetId) # {}

\* C13 as stated: restore, or a pass that runs to its end, on a snapshot with
\* more than one valid record of hardware that has no entry makes no entry of
\* that hardware, neither from one of the duplicates nor from each of them.
\* Checked for the runs in which no collaborator failed.
C13_NoEntryFromDuplicates ==
    [][(last'.op \in {"restore", "timer"} /\ last'.ret = "done"
            /\ ~last'.failed)
        => \A p \in DuplicatedPaths :
            EntriesOf(p) = {} => KeysOf(isolatedHardwares', p) = {}]_vars

\* C14 as stated: after a pass that ran to its end and left the map empty,
\* the full reset included, no eco core is left in the set and the eco_cores
\* file is gone. Checked for the passes in which no collaborator failed.
C14_EmptyMapEmptyEcoCores ==
    (PassDone /\ ~last.failed /\ isolatedHardwares = EmptyMap)
        => /\ persistedEcoCores = {}
           /\ ecoFile = Nullopt

\* The raw physical paths of the entries of the map.
IsolatedPaths ==
    {convertEntityPathIntoRawData(isolatedHardwares[k].entityPath) :
        k \in DOMAIN isolatedHardwares}

\* C15: cleanupPersistedEcoCores, run on the manager in any reachable state,
\* leaves in the set exactly the members that are the path of an entry of the
\* map (none when the map is empty) and touches neither the map nor the
\* store; and after restore and after every pass that ended with the cleanup
\* every member of the set is the path of an entry.
C15_CleanupKeepsIsolatedOnly ==
    /\ LET m == cleanupPersistedEcoCores(M)
       IN  /\ m.eco = persistedEcoCores \cap IsolatedPaths
           /\ isolatedHardwares = EmptyMap => m.eco = {}
           /\ m.ih = isolatedHardwares
           /\ m.guard = guard
    /\ (last.op = "restore" \/ (PassDone /\ getAll(guard, TRUE) # <<>>))
          => persistedEcoCores \subseteq IsolatedPaths

\* A pass is due on a manager whose map holds an entry while the set holds
\* an eco core that has no entry: the cleanup takes that member out.
C15_CleanupDropsAMember ==
    /\ timerObjs # <<>>
    /\ isolatedHardwares # EmptyMap
    /\ persistedEcoCores \ IsolatedPaths # {}
    /\ cleanupPersistedEcoCores(M).eco # persistedEcoCores

C17_EveryEntryTriedOnce ==
    \A resolveFail \in SUBSET DOMAIN isolatedHardwares, clearRecord \in BOOLEAN :
        LET m == resolveAllEntries(M, clearRecord, resolveFail)
        IN  /\ m.tried = SortedKeys(isolatedHardwares)
            /\ ~m.raised
            /\ DOMAIN m.ih = resolveFail
            /\ \A k \in resolveFail : m.ih[k] = isolatedHardwares[k]
            /\ m.guard = IF clearRecord
                         THEN [i \in DOMAIN guard |->
                                 IF guard[i].recordId \in
                                        DOMAIN isolatedHardwares \ resolveFail
                                 THEN ResolvedRecord(guard[i].targetId)
                                 ELSE guard[i]]
                         ELSE guard

\* deleteAll returned normally on a map of two entries: the resolveEntry of
\* the first threw, the entry is still there, and the second is gone.
C17_FirstFailedSecondResolved ==
    /\ last.op = "deleteAll"
    /\ last.ret = "ok"
    /\ DOMAIN isolatedHardwares = {1}
    /\ \E i \in DOMAIN guard :
        /\ ~isValidRecord(guard[i].recordId)
        /\ guard[i].targetId # isolatedHardwares[1].entityPath

\* C18: a deleteAll the deisolation check rejects fails and changes neither
\* the map nor the eco cores and their file nor the store; a deleteAll the
\* check lets pass returns normally and leaves what resolveAllEntries with
\* the records cleared leaves, for the entries whose resolveEntry threw.
C18_DeleteAllIsGated ==
    [][last'.op = "deleteAll" =>
        /\ last'.ret \in {"NotAllowed", "ok"}
        /\ last'.ret = "NotAllowed"
              => UNCHANGED <<guard, isolatedHardwares, persistedEcoCores,
                             ecoFile>>
        /\ last'.ret = "ok"
              => \E resolveFail \in SUBSET DOMAIN isolatedHardwares :
                    LET m == resolveAllEntries(M, TRUE, resolveFail)
                    IN  /\ isolatedHardwares' = m.ih
                        /\ persistedEcoCores' = m.eco
                        /\ ecoFile' = m.ecoFile
                        /\ guard' = m.guard
                        /\ DOMAIN isolatedHardwares' = resolveFail]_vars

\* The deisolation check rejected a deleteAll while entries with valid
\* records were there to resolve.
C18_RejectedWithEntries ==
    /\ last.op = "deleteAll"
    /\ last.ret = "NotAllowed"
    /\ \E k \in DOMAIN isolatedHardwares : k \in ValidIds(guard)

\* C19 as stated: every pass that starts runs to its end, whatever fails
\* while one entry is resolved or updated: the failure is skipped and no
\* exception leaves the pass before the remaining entries, the records
\* without an entry and the cleanup of the eco cores had their turn.
C19_EveryPassRunsToCompletion == last.op = "timer" => last.ret = "done"

\* C20: a pass, also one an exception leaves, on a snapshot with exactly one
\* valid record of the hardware of an entry keeps that entry in the map
\* under its key with its record id and its entity path, and leaves the
\* entries of that hardware the same set of keys: none removed, none made.
C20_EntryMutatedInPlace ==
    [][last'.op = "timer" =>
        \A k \in DOMAIN isolatedHardwares :
            LET p == isolatedHardwares[k].entityPath
            IN  Cardinality({r \in Snapshot : r.targetId = p}) = 1 =>
                /\ k \in DOMAIN isolatedHardwares'
                /\ isolatedHardwares'[k].entityPath = p
                /\ isolatedHardwares'[k].recordId = isolatedHardwares[k].recordId
                /\ KeysOf(isolatedHardwares', p) = EntriesOf(p)]_vars

\* A pass ran to its end over an entry whose hardware has exactly one valid
\* record, of another id than the entry: the entry carries the severity of
\* the record and is still under its own key.
C20_UpdatedUnderItsOwnKey ==
    /\ PassDone
    /\ \E k \in DOMAIN isolatedHardwares :
        LET recs == {r \in Snapshot :
                        r.targetId = isolatedHardwares[k].entityPath}
        IN  /\ Cardinality(recs) = 1
            /\ \A r \in recs :
                /\ r.recordId # k
                /\ getEntrySeverityType(r.errType)
                       = Some(isolatedHardwares[k].severity)

\* C21 as stated: getEID never lets an exception out, so no call of
\* createWithErrorLog or createWithEntityPath ends with another error than
\* InvalidArgument because of its error-log reference: none ends with the
\* std::invalid_argument of std::stoi.
C21_GetEIDNeverRaises ==
    last.op \in {"createWithErrorLog", "createWithEntityPath"}
        => last.ret # "std::invalid_argument"

\* C22: a create call that fails with InvalidArgument (hardware the catalog
\* does not know, a severity without a guard type, an error log without an
\* id) has changed neither the store nor the map.
C22_InvalidArgumentCreatesNothing ==
    [][(last'.op \in CreateOps /\ last'.ret = "InvalidArgument")
        => UNCHANGED <<guard, isolatedHardwares>>]_vars

\* A create call failed with InvalidArgument while the store had room for a
\* record and the map held an entry.
C22_InvalidArgumentWithRoom ==
    /\ last.op \in CreateOps
    /\ last.ret = "InvalidArgument"
    /\ Len(guard) < MaxRecords
    /\ DOMAIN isolatedHardwares # {}

\* C23: restore and every pass, also a pass an exception leaves, leave the
\* guard store as it was: no record is cleared when an entry is resolved and
\* none is rolled back when an entry cannot be made.
C23_RestoreAndPassKeepTheStore ==
    [][last'.op \in {"restore", "timer"} => guard' = guard]_vars

\* Restore or a pass during which a collaborator failed ended with a valid
\* record in the store whose hardware has no entry.
C23_FailedCreationKeptTheRecord ==
    /\ last.op \in {"restore", "timer"}
    /\ last.failed
    /\ \E r \in Snapshot : EntriesOf(r.targetId) = {}

\* C24: eraseEntry, run on the manager of any reachable state with any
\* record id, takes exactly the entry under that id out of the map and the
\* entity path of that entry out of the eco cores, every other entry and
\* every other eco core staying as it was; with no entry under the id the
\* map and the eco cores are unchanged. The store is not touched.
C24_EraseEntryFrame ==
    \A entryRecordId \in (1..MaxHostRecords) \cup {ResolvedRecordId} :
        LET m == eraseEntry(M, entryRecordId)
        IN  /\ m.guard = guard
            /\ IF entryRecordId \in DOMAIN isolatedHardwares
               THEN /\ DOMAIN m.ih = DOMAIN isolatedHardwares \ {entryRecordId}
                    /\ \A k \in DOMAIN m.ih : m.ih[k] = isolatedHardwares[k]
                    /\ m.eco = persistedEcoCores \
                           {convertEntityPathIntoRawData(
                                isolatedHardwares[entryRecordId].entityPath)}
               ELSE /\ m.ih = isolatedHardwares
                    /\ m.eco = persistedEcoCores

\* A caller resolved an entry, which erased itself, while another entry and
\* an eco core were there to keep.
C24_ErasedBesideOthers ==
    /\ last.op = "resolve"
    /\ last.ret = "ok"
    /\ DOMAIN isolatedHardwares # {}
    /\ persistedEcoCores # {}

\* What the guard store can answer to a create call for the hardware at
\* `raw` in the current state: a record, or a failure.
MadesFor(raw, severity) ==
    IF HasValue(getGuardType(severity))
    THEN {Some(x) : x \in GuardCreate(guard, EntityPath(raw, Len(raw)), 1,
                                      ValueOf(getGuardType(severity)))}
         \cup {Nullopt}
    ELSE {Nullopt}

\* C25: in every reachable state, a createWithEntityPath call that succeeds
\* leaves its raw path in the eco cores exactly when the catalog classified
\* the path as an eco core during the call, and a create or
\* createWithErrorLog call, whatever its outcome, leaves the eco cores as
\* they were.
C25_EcoCoresFollowTheCatalog ==
    \A g \in ConsultedGateInputs, raw \in RawPaths :
    \A made \in MadesFor(raw, g.severity), fault \in Faults :
        /\ \A ecoCls \in SUBSET CorePaths :
            LET env == [NoEnv EXCEPT !.ecoCls = ecoCls]
                io == [settingEnabled |-> g.settingEnabled,
                       powerState |-> g.powerState, eidFails |-> FALSE,
                       env |-> env, made |-> made, fault |-> fault]
                r == createWithEntityPath(M, raw, g.severity, BMCLogPath(1), io)
            IN  r.ret = "ok" =>
                    (raw \in r.m.eco
                        <=> getInventoryPath(raw, FALSE, env).ecoCore)
        /\ \A isolateHardware \in {InventoryPath(raw), UnknownInventoryPath},
              bmcErrorLog \in BmcErrorLogs, eidFails \in BOOLEAN :
            LET io == [settingEnabled |-> g.settingEnabled,
                       powerState |-> g.powerState, eidFails |-> eidFails,
                       made |-> made, fault |-> fault]
            IN  /\ create(M, isolateHardware, g.severity, io).m.eco
                       = persistedEcoCores
                /\ createWithErrorLog(M, isolateHardware, g.severity,
                                      bmcErrorLog, io).m.eco
                       = persistedEcoCores

\* createWithEntityPath succeeded for a core the catalog did not classify as
\* an eco core during the call: the core is not among the eco cores.
C25_CoreNotAmongTheEcoCores ==
    /\ last.op = "createWithEntityPath"
    /\ last.ret = "ok"
    /\ HasValue(last.made)
    /\ convertEntityPathIntoRawData(ValueOf(last.made).targetId)
           \in CorePaths \ persistedEcoCores

\* C26: when restore has completed, every file of the directory of the
\* entries reads as the id of an entry of the map, and the eco cores are as
\* cleanupPersistedEcoCores leaves them: the cleanup ran last, after the
\* files were removed.
C26_RestoreLeavesFilesOfEntriesOnly ==
    last.op = "restore" =>
        /\ \A file \in entryFiles :
               /\ HasValue(stoul(file))
               /\ ValueOf(stoul(file)) \in DOMAIN isolatedHardwares
        /\ cleanupPersistedEcoCores(M) = M

\* restore completed with an entry whose file is kept and with a record no
\* entry could be created for, under whose id there is no file.
C26_RestoredWithAFileKept ==
    /\ last.op = "restore"
    /\ \E k \in DOMAIN isolatedHardwares : EntryFile(k) \in entryFiles
    /\ \E r \in Snapshot :
           /\ r.recordId \notin DOMAIN isolatedHardwares
           /\ EntryFile(r.recordId) \notin entryFiles

\* C27 as stated: under a fair event loop every file-change signal is
\* followed by a pass, which reads the guard file as it is when the pass
\* runs, that is, after the signal.
C27_EverySignalIsFollowedByAPass == (last.op = "signal") ~> (last.op = "timer")

\* C28 as stated: after a pass that ran to its end, no collaborator failing,
\* on a snapshot with at most one valid record for every entity path, every
\* entry is under the record id of the valid record of its entity path and
\* carries that record id.
C28_EntryCarriesTheIdOfItsRecord ==
    (PassDone /\ ~last.failed /\ OneValidRecordPerPath)
        => \A k \in DOMAIN isolatedHardwares :
            \A r \in Snapshot :
                r.targetId = isolatedHardwares[k].entityPath
                    => /\ k = r.recordId
                       /\ isolatedHardwares[k].recordId = r.recordId

\* C29 as stated: a create, createWithErrorLog or createWithEntityPath call
\* that fails with InternalFailure leaves the map of entries as it was
\* before the call, so no entry of the rolled-back record is in it.
C29_InternalFailureLeavesTheMap ==
    [][(last'.op \in CreateOps /\ last'.ret = "InternalFailure")
        => isolatedHardwares' = isolatedHardwares]_vars

\* C30: every pass starts with a timer pending and takes exactly one timer
\* off the queue, the one at the front, which is the oldest pending one and
\* the one that expired; and no more passes have run than signals arrived.
C30_EveryPassTakesTheTimerThatExpired ==
    [][last'.op = "timer" =>
        /\ timerObjs # <<>>
        /\ timerObjs' = Tail(timerObjs)
        /\ dispatched'.taken = Some(Head(timerObjs))
        /\ \A u \in SeqRange(timerObjs) : Head(timerObjs).armed <= u.armed
        /\ dispatched'.expired = dispatched'.taken
        /\ dispatched'.passes = dispatched.passes + 1
        /\ dispatched'.passes <= dispatched'.signals]_vars

\* A pass ran while a younger timer was pending, which is still pending.
C30_PassLeftTheYoungerTimer ==
    /\ last.op = "timer"
    /\ timerObjs # <<>>
    /\ HasValue(dispatched.taken)
    /\ ValueOf(dispatched.taken).armed < Head(timerObjs).armed

====
